---- MODULE Spec2Model ----
(***************************************************************************)
(* A model of the Helpie knowledge base: KnowledgeBase in                  *)
(* knowledge_base_manager.py (the in-memory index, its two on-disk         *)
(* artifacts, folder ingestion and the hybrid search), and of LlamaAI in   *)
(* llama_ai.py (the sanitizers, generate_response and the history).        *)
(*                                                                         *)
(* Representation.  A character is a one-letter string, a word a sequence  *)
(* of characters, and a text the sequence of words str.split() gives for   *)
(* it: every use the code makes of a text goes through split() or through  *)
(* a chunk built by ' '.join(words).  List indices are 1-based here and    *)
(* 0-based in the code.  Similarities, boosts and distances are in         *)
(* hundredths (0.15 is 15, 1.0 is 100).                                    *)
(***************************************************************************)
EXTENDS Integers, Sequences, FiniteSets, TLC

VARIABLES
    documents,   \* self.documents: the chunk texts
    metadatas,   \* self.metadatas: one mapping per chunk
    embeddings,  \* self.embeddings: one vector per chunk
    alive,       \* TRUE while a constructed KnowledgeBase object exists
    metaFile,    \* metadata.json: [state, content], state absent, corrupt or ok
    embFile,     \* embeddings.npy: [state, content], state absent, corrupt or ok
    pklFile,     \* embeddings.pkl, the legacy combined artifact: [state, content]
    folders,     \* the folders of documents that exist on the disk
    unreliable,  \* whether the disk may fail a save in this behaviour
    faults,      \* number of save errors injected so far
    saved,       \* the in-memory state written by the last complete _save_index
    conversation_history,  \* LlamaAI.conversation_history: user id -> messages
    last         \* the last call: its name, arguments and outcome

vars == <<documents, metadatas, embeddings, alive, metaFile, embFile, pklFile,
          folders, unreliable, faults, saved, conversation_history, last>>

----------------------------------------------------------------------------
(* Bounds of the model. *)

MaxDocs == 2        \* add_text is called only while the store holds fewer chunks
MaxResults == 2     \* n_results ranges over 0..MaxResults
MaxFaults == 1      \* save errors injected per behaviour
MaxWords == 6       \* _chunk_text is applied to texts of 0..MaxWords words
MaxChunkSize == 4   \* with chunk_size in 1..MaxChunkSize
MaxOverlap == 4     \* and overlap in 0..MaxOverlap

----------------------------------------------------------------------------
(* Values. *)

NoneVal == "<None>"     \* Python's None, also the value of m.get(k) for a missing key

Min(a, b) == IF a < b THEN a ELSE b

Truthy(x) == x # NoneVal /\ x # ""

Get(m, k) == IF k \in DOMAIN m THEN m[k] ELSE NoneVal

\* m with m[k] = v, as the assignment m[k] = v on a dict
Put(m, k, v) == [x \in DOMAIN m \cup {k} |-> IF x = k THEN v ELSE m[x]]

Indices(n) == [i \in 1..n |-> i]

----------------------------------------------------------------------------
(* Strings: lower(), and the substring test  kw in doc_text. *)

LowerChar(c) ==
    CASE c = "A" -> "a"
      [] c = "P" -> "p"
      [] c = "D" -> "d"
      [] c = "F" -> "f"
      [] c = "C" -> "c"
      [] c = "T" -> "t"
      [] OTHER -> c

LowerWord(w) == [i \in 1..Len(w) |-> LowerChar(w[i])]

LowerText(t) == [i \in 1..Len(t) |-> LowerWord(t[i])]

\* s occurs in w as a contiguous run of characters
Substring(s, w) ==
    \E o \in 0..(Len(w) - Len(s)) : \A i \in 1..Len(s) : w[o + i] = s[i]

\* kw in ' '.join(words): a keyword holds no blank, so it occurs in the joined
\* text exactly when it occurs inside one of the words
InText(kw, t) == \E j \in 1..Len(t) : Substring(kw, t[j])

----------------------------------------------------------------------------
(* The embedding model.  SentenceTransformer.encode is an external,        *)
(* deterministic map from a text to a vector; here to a vector of the      *)
(* plane with an integral norm, chosen by the text's first letter.         *)

Encode(t) ==
    IF t = <<>> THEN <<0, 1>>
    ELSE LET c == LowerChar(t[1][1])
         IN  CASE c = "a" -> <<1, 0>>
               [] c = "b" -> <<3, 4>>
               [] OTHER -> <<4, 3>>

\* encode can raise (the model runs out of memory, a device fails); here it
\* raises on the chunks that begin with the word "!"
EncodeRaises(t) == t # <<>> /\ t[1] = <<"!">>

Dot(u, v) == u[1] * v[1] + u[2] * v[2]

Norm(u) == CHOOSE n \in 0..10 : n * n = Dot(u, u)

\* sklearn's cosine_similarity, in hundredths; 0 when a norm is 0
CosineSimilarity(u, v) ==
    IF Norm(u) = 0 \/ Norm(v) = 0 THEN 0
    ELSE (100 * Dot(u, v)) \div (Norm(u) * Norm(v))

----------------------------------------------------------------------------
(* _chunk_text: windows of chunk_size words, advancing by                  *)
(* chunk_size - overlap.  range() with a negative step yields nothing, and *)
(* the text itself is then the only chunk; range() with a step of 0 raises *)
(* ValueError.                                                             *)

ChunkSize == 500
Overlap == 50

\* range(0, len(words), 0): ValueError
ChunkTextRaises(chunk_size, overlap) == chunk_size - overlap = 0

RangeCount(n, step) == IF step > 0 THEN (n + step - 1) \div step ELSE 0

ChunkText(words, chunk_size, overlap) ==
    LET step == chunk_size - overlap
        n == RangeCount(Len(words), step)
        chunks == [j \in 1..n |->
                      SubSeq(words, (j - 1) * step + 1,
                             Min((j - 1) * step + chunk_size, Len(words)))]
    IN  IF chunks # <<>> THEN chunks ELSE <<words>>

----------------------------------------------------------------------------
(* The two artifacts.  metadata.json holds a JSON object with the keys     *)
(* documents and metadatas; a JSON object is a set of key/value pairs and  *)
(* a JSON value carries its type.  embeddings.npy holds np.array() of the  *)
(* embedding list: a shape and the numbers in row-major order.             *)

JsonValue(k, v) == IF k = "chunk_index" THEN <<"number", v>> ELSE <<"string", v>>

JsonObject(m) == {<<k, JsonValue(k, m[k])>> : k \in DOMAIN m}

JsonDump(docs, metas) ==
    [documents |-> docs,
     metadatas |-> [i \in 1..Len(metas) |-> JsonObject(metas[i])]]

PyDict(obj) ==
    [k \in {p[1] : p \in obj} |-> (CHOOSE p \in obj : p[1] = k)[2][2]]

JsonLoadDocuments(file) == file.documents

JsonLoadMetadatas(file) ==
    [i \in 1..Len(file.metadatas) |-> PyDict(file.metadatas[i])]

NpArray(embs) ==
    IF embs = <<>> THEN [shape |-> <<0>>, data |-> <<>>]
    ELSE LET d == Len(embs[1])
         IN  [shape |-> <<Len(embs), d>>,
              data |-> [i \in 1..(Len(embs) * d) |->
                           embs[((i - 1) \div d) + 1][((i - 1) % d) + 1]]]

\* list(np.load(path)): the rows of the stored array
NpRows(arr) ==
    IF Len(arr.shape) = 1 THEN arr.data
    ELSE LET d == arr.shape[2]
         IN  [i \in 1..arr.shape[1] |-> SubSeq(arr.data, (i - 1) * d + 1, i * d)]

\* A file: absent, corrupt (left truncated by a failed write) or ok with content
NoJson == [documents |-> <<>>, metadatas |-> <<>>]
NoArray == [shape |-> <<0>>, data |-> <<>>]
AbsentJson == [state |-> "absent", content |-> NoJson]
AbsentNpy == [state |-> "absent", content |-> NoArray]
CorruptJson == [state |-> "corrupt", content |-> NoJson]
CorruptNpy == [state |-> "corrupt", content |-> NoArray]
OkFile(c) == [state |-> "ok", content |-> c]

Exists(file) == file.state # "absent"

\* The legacy artifact, a pickle of the three lists written by an older
\* version.  No code path writes it, and none reads or removes it: __init__
\* calls _load_index only when both current artifacts exist, and the fallback
\* of _load_index fails on self.index_path before it looks at any file.
AbsentPkl == [state |-> "absent",
              content |-> [documents |-> <<>>, metadatas |-> <<>>, embeddings |-> <<>>]]
LegacyPkl ==
    OkFile([documents |-> << << <<"b">>, <<"x">> >> >>,
            metadatas |-> << [source |-> <<"o", "l", "d">>, chunk_index |-> 0] >>,
            embeddings |-> << <<3, 4>> >>])

\* How one _save_index call ends.  "ok": both artifacts written.
\* "fail_open": makedirs or open raised, nothing written.  "fail_json": open
\* truncated metadata.json and json.dump raised.  "fail_npy_before":
\* metadata.json written, np.save raised before touching embeddings.npy.
\* "fail_npy_partial": metadata.json written, embeddings.npy left truncated.
SaveOutcomes == {"ok", "fail_open", "fail_json", "fail_npy_before", "fail_npy_partial"}

\* _save_index on the disk [meta, emb]; the error of a failed save is logged
\* and swallowed
SaveIndex(docs, metas, embs, disk, outcome) ==
    CASE outcome = "ok" ->
            [meta |-> OkFile(JsonDump(docs, metas)), emb |-> OkFile(NpArray(embs))]
      [] outcome = "fail_open" -> disk
      [] outcome = "fail_json" -> [meta |-> CorruptJson, emb |-> disk.emb]
      [] outcome = "fail_npy_before" ->
            [meta |-> OkFile(JsonDump(docs, metas)), emb |-> disk.emb]
      [] outcome = "fail_npy_partial" ->
            [meta |-> OkFile(JsonDump(docs, metas)), emb |-> CorruptNpy]

EmptyStore == [raised |-> FALSE, documents |-> <<>>, metadatas |-> <<>>, embeddings |-> <<>>]

\* _load_index, entered only when both artifacts exist.  A failed read is
\* logged; the fallback then reads self.index_path, an attribute that is
\* never set, and that AttributeError leaves the constructor.
LoadIndex(disk) ==
    IF disk.meta.state = "corrupt" \/ disk.emb.state = "corrupt"
    THEN [EmptyStore EXCEPT !.raised = TRUE]
    ELSE [raised |-> FALSE,
          documents |-> JsonLoadDocuments(disk.meta.content),
          metadatas |-> JsonLoadMetadatas(disk.meta.content),
          embeddings |-> NpRows(disk.emb.content)]

\* KnowledgeBase.__init__: empty arrays, then _load_index if both files exist
Construct(disk) ==
    IF Exists(disk.meta) /\ Exists(disk.emb) THEN LoadIndex(disk) ELSE EmptyStore

----------------------------------------------------------------------------
(* add_text, on the store [documents, metadatas, embeddings] and the disk  *)
(* [meta, emb].  saved is what the last _save_index call wrote when it     *)
(* completed, errors counts the saves that failed.                         *)

Store(docs, metas, embs) == [documents |-> docs, metadatas |-> metas, embeddings |-> embs]

NoSnapshot == [valid |-> FALSE, documents |-> <<>>, metadatas |-> <<>>, embeddings |-> <<>>]

Snapshot(st) ==
    [valid |-> TRUE, documents |-> st.documents, metadatas |-> st.metadatas,
     embeddings |-> st.embeddings]

\* the state threaded through the calls of one operation
Run(st, disk, snap, saves, errors) ==
    [st |-> st, disk |-> disk, saved |-> snap, saves |-> saves, errors |-> errors]

\* _save_index as the k-th save of an operation whose saves end as outs[k]
SaveStep(r, outs) ==
    LET o == outs[r.saves + 1]
        d == SaveIndex(r.st.documents, r.st.metadatas, r.st.embeddings, r.disk, o)
    IN  Run(r.st, d,
            IF o = "ok" THEN Snapshot(r.st) ELSE NoSnapshot,
            r.saves + 1,
            r.errors + (IF o = "ok" THEN 0 ELSE 1))

\* AppendChunks numbering the chunks by their position in the store
AppendChunksGlobalIndex(st, chunks, metadata) ==
    Store(st.documents \o chunks,
          st.metadatas \o [i \in 1..Len(chunks) |->
                             Put(metadata, "chunk_index", Len(st.documents) + i - 1)],
          st.embeddings \o [i \in 1..Len(chunks) |-> Encode(chunks[i])])

\* AppendChunks putting the new entries in place of the lists
AppendChunksOver(st, chunks, metadata) ==
    Store(chunks,
          [i \in 1..Len(chunks) |-> Put(metadata, "chunk_index", i - 1)],
          [i \in 1..Len(chunks) |-> Encode(chunks[i])])

\* the loop of add_text: one entry per chunk in each of the three lists, the
\* chunk's position stamped into a copy of the caller's metadata
AppendChunks(st, chunks, metadata) ==
    Store(st.documents \o chunks,
          st.metadatas \o [i \in 1..Len(chunks) |-> Put(metadata, "chunk_index", i - 1)],
          st.embeddings \o [i \in 1..Len(chunks) |-> Encode(chunks[i])])

\* the caller's mapping after add_text: every chunk gets dict(metadata or {}),
\* a new mapping, and chunk_index is written to that one
CallerMetadata(metadata) == metadata

\* the chunks the loop of add_text gets through: those before the first
\* chunk on which encode raises
EncodedPrefix(chunks) ==
    LET failing == {i \in 1..Len(chunks) : EncodeRaises(chunks[i])}
    IN  IF failing = {} THEN chunks
        ELSE SubSeq(chunks, 1, (CHOOSE i \in failing : \A j \in failing : i <= j) - 1)

\* add_text raises: encode raised on one of the chunks
AddTextRaises(text) ==
    /\ text # <<>>
    /\ \E i \in 1..Len(ChunkText(text, ChunkSize, Overlap)) :
          EncodeRaises(ChunkText(text, ChunkSize, Overlap)[i])

\* add_text: nothing for a blank text; else the chunks are appended one by
\* one and the index is saved.  When encode raises, the chunks appended so
\* far stay in the lists and _save_index is not reached.
AddText(r, text, metadata, outs) ==
    IF text = <<>> THEN r
    ELSE LET chunks == ChunkText(text, ChunkSize, Overlap)
             appended == [r EXCEPT !.st = AppendChunks(r.st, EncodedPrefix(chunks), metadata)]
         IN  IF AddTextRaises(text) THEN appended ELSE SaveStep(appended, outs)

\* Clear without the call of _save_index
ClearUnsaved(r, outs) == [r EXCEPT !.st = Store(<<>>, <<>>, <<>>)]

\* clear(): three empty lists, then _save_index
Clear(r, outs) == SaveStep([r EXCEPT !.st = Store(<<>>, <<>>, <<>>)], outs)

\* get_stats(): the number of documents and the collections of the metadata,
\* 'default' standing for a chunk without one
GetStats(st) ==
    LET collections == {Get(st.metadatas[i], "collection") : i \in 1..Len(st.metadatas)}
        named == {IF c = NoneVal THEN "default" ELSE c : c \in collections}
    IN  [total_documents |-> Len(st.documents),
         collections |-> named,
         collection_count |-> Cardinality(named)]

----------------------------------------------------------------------------
(* Files and folders.  A file name is a sequence of characters; a path is  *)
(* the sequence of its components.                                         *)

Max(S) == CHOOSE x \in S : \A y \in S : y <= x

\* os.path.splitext(filename)[1]
SplitExt(name) ==
    LET dots == {i \in 2..Len(name) : name[i] = "."}
    IN  IF dots = {} THEN <<>> ELSE SubSeq(name, Max(dots), Len(name))

ExtPdf == <<".", "p", "d", "f">>
ExtDocx == <<".", "d", "o", "c", "x">>
ExtTxt == <<".", "t", "x", "t">>
supported_extensions == {ExtPdf, ExtDocx, ExtTxt}

RECURSIVE Concat(_)
Concat(parts) == IF parts = <<>> THEN <<>> ELSE Head(parts) \o Concat(Tail(parts))

\* the category add_pdf reads off the lower-cased file name
PdfCategory(name) ==
    LET filename == LowerWord(name)
    IN  IF Substring(<<"e", "m", "p">>, filename) THEN "employment"
        ELSE IF Substring(<<"e", "d", "u">>, filename) THEN "education"
        ELSE IF Substring(<<"a", "d", "d">>, filename)
                \/ Substring(<<"a", "d", "d", "r", "e", "s", "s">>, filename)
             THEN "address"
        ELSE IF Substring(<<"m", "i", "s", "c">>, filename)
                \/ Substring(<<"c", "r", "i", "m", "i", "n", "a", "l">>, filename)
             THEN "compliance"
        ELSE NoneVal

\* add_pdf: the pages' text, metadata {source, type[, category]}; an error
\* of reading the file, or one raised by add_text, is logged and swallowed
AddPdf(r, f, outs) ==
    IF ~f.readable THEN r
    ELSE LET category == PdfCategory(f.name)
             base == [source |-> f.name, type |-> "pdf"]
             metadata == IF Truthy(category) THEN Put(base, "category", category) ELSE base
         IN  AddText(r, Concat(f.parts), metadata, outs)

\* add_docx: the paragraphs' text
AddDocx(r, f, outs) ==
    IF ~f.readable THEN r
    ELSE AddText(r, Concat(f.parts), [source |-> f.name, type |-> "docx"], outs)

\* add_txt: the file's text
AddTxt(r, f, outs) ==
    IF ~f.readable THEN r
    ELSE AddText(r, Concat(f.parts), [source |-> f.name, type |-> "txt"], outs)

\* os.path.basename(folder_path)
Basename(path) == path[Len(path)]

knowledge_base_path == <<"kb">>

EmbeddingsPkl == <<"e", "m", "b", "e", "d", "d", "i", "n", "g", "s", ".", "p", "k", "l">>

\* CollectionLabel taking the folder's base name for the root as well
CollectionLabelBasename(folder_path, collection_name) ==
    IF collection_name = NoneVal THEN Basename(folder_path) ELSE collection_name

\* the label load_documents_from_folder stamps: the explicit one, else the
\* folder's base name unless the folder is the knowledge base's root
CollectionLabel(folder_path, collection_name) ==
    IF collection_name = NoneVal /\ folder_path # knowledge_base_path
    THEN Basename(folder_path)
    ELSE collection_name

\* metadatas[i]['collection'] = collection for the entries added since docs_before
StampCollection(r, docs_before, collection) ==
    IF collection = NoneVal THEN r
    ELSE [r EXCEPT !.st.metadatas =
             [i \in 1..Len(r.st.metadatas) |->
                 IF i > docs_before THEN Put(r.st.metadatas[i], "collection", collection)
                 ELSE r.st.metadatas[i]]]

\* one entry of the listing: skipped, or handed to the ingestor its extension
\* names, and then stamped
IngestEntry(r, f, collection, outs) ==
    IF f.isdir \/ f.name = EmbeddingsPkl THEN r
    ELSE LET ext == SplitExt(f.name)
         IN  IF LowerWord(ext) \in supported_extensions
             THEN LET added == IF ext = ExtPdf THEN AddPdf(r, f, outs)
                               ELSE IF ext = ExtDocx THEN AddDocx(r, f, outs)
                               ELSE IF ext = ExtTxt THEN AddTxt(r, f, outs)
                               ELSE r
                  IN  StampCollection(added, Len(r.st.documents), collection)
             ELSE r

\* the loop of load_documents_from_folder over os.listdir(folder_path)
RECURSIVE IngestEntries(_, _, _, _)
IngestEntries(r, entries, collection, outs) ==
    IF entries = <<>> THEN r
    ELSE IngestEntries(IngestEntry(r, Head(entries), collection, outs),
                       Tail(entries), collection, outs)

----------------------------------------------------------------------------
(* search. *)

BoostPerMatchCollection == 15
BoostCapCollection == 70
BoostPerMatch == 10
BoostCap == 50

Range(f) == {f[i] : i \in DOMAIN f}

\* set(query.lower().split())
QueryKeywords(query) == Range(LowerText(query))

\* sum(1 for kw in query_keywords if kw in doc_text), doc_text the lower-cased chunk
KeywordMatches(query_keywords, doc) ==
    LET doc_text == LowerText(doc)
    IN  Cardinality({kw \in query_keywords : InText(kw, doc_text)})

\* Boost with max in place of min
BoostMax(keyword_matches, per_match, cap) ==
    IF keyword_matches * per_match > cap THEN keyword_matches * per_match ELSE cap

Boost(keyword_matches, per_match, cap) == Min(keyword_matches * per_match, cap)

\* WithCollection keeping every chunk that carries some collection label
WithAnyCollection(metas, collection_name) ==
    SelectSeq(Indices(Len(metas)),
              LAMBDA i : Get(metas[i], "collection") # NoneVal)

WithCollection(metas, collection_name) ==
    SelectSeq(Indices(Len(metas)),
              LAMBDA i : Get(metas[i], "collection") = collection_name)

\* WithCategory also keeping the chunks that carry no category
WithCategoryOrNone(metas, indices, category) ==
    SelectSeq(indices, LAMBDA i : Get(metas[i], "category") \in {category, NoneVal})

WithCategory(metas, indices, category) ==
    SelectSeq(indices, LAMBDA i : Get(metas[i], "category") = category)

\* FilteredIndices falling back to the whole collection when the category
\* matches none of its chunks
FilteredIndicesSoft(st, collection_name, category) ==
    IF Truthy(collection_name)
    THEN LET filtered == WithCollection(st.metadatas, collection_name)
             narrowed == WithCategory(st.metadatas, filtered, category)
         IN  IF Truthy(category) /\ narrowed # <<>> THEN narrowed ELSE filtered
    ELSE IF Truthy(category)
         THEN WithCategory(st.metadatas, Indices(Len(st.metadatas)), category)
         ELSE Indices(Len(st.documents))

\* filtered_indices; empty where search returns [] before computing anything
FilteredIndices(st, collection_name, category) ==
    IF Truthy(collection_name)
    THEN LET filtered == WithCollection(st.metadatas, collection_name)
         IN  IF filtered = <<>> THEN <<>>
             ELSE IF Truthy(category)
                  THEN WithCategory(st.metadatas, filtered, category)
                  ELSE filtered
    ELSE IF Truthy(category)
         THEN WithCategory(st.metadatas, Indices(Len(st.metadatas)), category)
         ELSE Indices(Len(st.documents))

\* BoostedSimilarity with the boost of the unfiltered search in both branches
BoostedSimilarityOneRate(st, query, idx, collection_name) ==
    LET sim == CosineSimilarity(Encode(query), st.embeddings[idx])
        keyword_matches == KeywordMatches(QueryKeywords(query), st.documents[idx])
    IN  sim + Boost(keyword_matches, BoostPerMatch, BoostCap)

\* sim + boost of the chunk at index idx
BoostedSimilarity(st, query, idx, collection_name) ==
    LET sim == CosineSimilarity(Encode(query), st.embeddings[idx])
        keyword_matches == KeywordMatches(QueryKeywords(query), st.documents[idx])
    IN  sim + (IF Truthy(collection_name)
               THEN Boost(keyword_matches, BoostPerMatchCollection, BoostCapCollection)
               ELSE Boost(keyword_matches, BoostPerMatch, BoostCap))

\* boosted_similarities, one per candidate, in candidate order
BoostedSimilarities(st, query, filtered, collection_name) ==
    [i \in 1..Len(filtered) |-> BoostedSimilarity(st, query, filtered[i], collection_name)]

\* np.argsort: the orders that are ascending in score; the default sort is
\* not stable, so equal scores may come in either order
ArgSorts(scores) ==
    {p \in Permutations(1..Len(scores)) :
        \A i, j \in 1..Len(scores) : i < j => scores[p[i]] <= scores[p[j]]}

\* TopRelIndices without the reversal [::-1]
TopRelIndicesAscending(order, k) ==
    LET n == Len(order)
        m == IF k = 0 THEN n ELSE k
    IN  [j \in 1..m |-> order[n - m + j]]

\* order[-k:][::-1]; order[-0:] is the whole of order
TopRelIndices(order, k) ==
    LET n == Len(order)
        m == IF k = 0 THEN n ELSE k
    IN  [j \in 1..m |-> order[n - j + 1]]

\* formatted_results: the chunk at top_indices[rank] with the distance
\* read at final_similarities[rank]
FormatResults(st, top_indices, final_similarities) ==
    [rank \in 1..Len(top_indices) |->
        [content |-> st.documents[top_indices[rank]],
         metadata |-> st.metadatas[top_indices[rank]],
         distance |-> 100 - final_similarities[rank]]]

\* NoResults raising instead of returning
NoResultsRaised ==
    [raised |-> TRUE, computed |-> FALSE, results |-> <<>>, top_indices |-> <<>>,
     boosted_similarities |-> <<>>]

\* return [] before cosine_similarity is called
NoResults ==
    [raised |-> FALSE, computed |-> FALSE, results |-> <<>>, top_indices |-> <<>>,
     boosted_similarities |-> <<>>]

\* search, given the order np.argsort returns
Search(st, query, n_results, collection_name, category, order) ==
    LET filtered == FilteredIndices(st, collection_name, category)
    IN  IF Len(st.documents) = 0 \/ filtered = <<>> THEN NoResults
        ELSE IF \E i \in 1..Len(filtered) : filtered[i] > Len(st.embeddings)
        THEN [NoResults EXCEPT !.raised = TRUE]       \* IndexError
        ELSE LET boosted == BoostedSimilarities(st, query, filtered, collection_name)
                 k == Min(n_results, Len(filtered))
                 top_rel_indices == TopRelIndices(order, k)
                 top_indices == [j \in 1..Len(top_rel_indices) |->
                                    filtered[top_rel_indices[j]]]
             IN  [raised |-> FALSE,
                  computed |-> TRUE,
                  results |-> FormatResults(st, top_indices, boosted),
                  top_indices |-> top_indices,
                  boosted_similarities |-> boosted]

\* the orders np.argsort may return in this call (one order where search
\* returns before sorting)
SearchOrders(st, query, collection_name, category) ==
    LET filtered == FilteredIndices(st, collection_name, category)
    IN  IF Len(st.documents) = 0 \/ filtered = <<>>
           \/ \E i \in 1..Len(filtered) : filtered[i] > Len(st.embeddings)
        THEN {<<>>}
        ELSE ArgSorts(BoostedSimilarities(st, query, filtered, collection_name))

----------------------------------------------------------------------------
(* LlamaAI in llama_ai.py: the sanitizers, generate_response and the       *)
(* conversation history.  A string is the sequence of its characters; a    *)
(* character that cannot be printed is named by its Python escape.         *)

\* the code points of the characters written as escapes; every other
\* character of the model is a printable ASCII character
EscapeCode ==
    ("\\x00" :> 0) @@ ("\\t" :> 9) @@ ("\\n" :> 10) @@ ("\\x1f" :> 31)
    @@ ("\\x7f" :> 127) @@ ("\\x9f" :> 159) @@ ("\\xa0" :> 160)

\* the class [\x00-\x1f\x7f-\x9f]
IsControl(c) ==
    c \in DOMAIN EscapeCode /\ EscapeCode[c] \in (0..31) \cup (127..159)

\* the class \s of a str pattern, up to U+00FF
IsSpace(c) ==
    \/ c = " "
    \/ c \in DOMAIN EscapeCode /\ EscapeCode[c] \in (9..13) \cup (28..31) \cup {133, 160}

\* None passed where a string is expected
NoneText == <<NoneVal>>

MaxInputChars == 10000

\* SanitizeInput cutting to MaxInputChars before the control characters are removed
SanitizeInputCutFirst(text) ==
    IF text = NoneText \/ text = <<>> THEN <<>>
    ELSE SelectSeq(SubSeq(text, 1, Min(Len(text), MaxInputChars)),
                   LAMBDA c : ~IsControl(c))

\* _sanitize_input
SanitizeInput(text) ==
    IF text = NoneText \/ text = <<>> THEN <<>>
    ELSE LET sanitized == SelectSeq(text, LAMBDA c : ~IsControl(c))
         IN  SubSeq(sanitized, 1, Min(Len(sanitized), MaxInputChars))

PathMark == <<"[", "p", "a", "t", "h", "]">>

\* re.sub(r'/[^\s]+', '[path]', s): from the left, each '/' that is followed
\* by a character other than whitespace is replaced, with the characters up
\* to the next whitespace, by '[path]'
RECURSIVE RemovePaths(_)
RemovePaths(s) ==
    IF s = <<>> THEN <<>>
    ELSE IF s[1] = "/" /\ Len(s) >= 2 /\ ~IsSpace(s[2])
         THEN LET spaces == {i \in 2..Len(s) : IsSpace(s[i])}
                  stop == IF spaces = {} THEN Len(s) + 1
                          ELSE CHOOSE i \in spaces : \A j \in spaces : i <= j
              IN  PathMark \o RemovePaths(SubSeq(s, stop, Len(s)))
         ELSE <<s[1]>> \o RemovePaths(Tail(s))

KwConnection == <<"c", "o", "n", "n", "e", "c", "t", "i", "o", "n">>
KwTimeout == <<"t", "i", "m", "e", "o", "u", "t">>

UnableToConnect ==
    <<"U", "n", "a", "b", "l", "e", " ", "t", "o", " ", "c", "o", "n", "n",
      "e", "c", "t", " ", "t", "o", " ", "t", "h", "e", " ", "A", "I", " ",
      "s", "e", "r", "v", "i", "c", "e">>

RequestTimedOut ==
    <<"R", "e", "q", "u", "e", "s", "t", " ", "t", "i", "m", "e", "d", " ",
      "o", "u", "t">>

ErrorOccurred ==
    <<"A", "n", " ", "e", "r", "r", "o", "r", " ", "o", "c", "c", "u", "r",
      "r", "e", "d", " ", "w", "h", "i", "l", "e", " ", "p", "r", "o", "c",
      "e", "s", "s", "i", "n", "g", " ", "y", "o", "u", "r", " ", "r", "e",
      "q", "u", "e", "s", "t">>

\* SanitizeError with the two tests in the other order
SanitizeErrorTimeoutFirst(error) ==
    LET error_str == LowerWord(RemovePaths(error))
    IN  IF Substring(KwTimeout, error_str) THEN RequestTimedOut
        ELSE IF Substring(KwConnection, error_str) THEN UnableToConnect
        ELSE ErrorOccurred

\* _sanitize_error, of an exception whose str() is error
SanitizeError(error) ==
    LET error_str == LowerWord(RemovePaths(error))
    IN  IF Substring(KwConnection, error_str) THEN UnableToConnect
        ELSE IF Substring(KwTimeout, error_str) THEN RequestTimedOut
        ELSE ErrorOccurred

InvalidQuestion ==
    <<"I", " ", "d", "i", "d", "n", "'", "t", " ", "r", "e", "c", "e", "i",
      "v", "e", " ", "a", " ", "v", "a", "l", "i", "d", " ", "q", "u", "e",
      "s", "t", "i", "o", "n", ".">>

HistoryWindow == 6
HistoryCap == 10

\* s[-n:] for n > 0
LastN(s, n) == IF Len(s) <= n THEN s ELSE SubSeq(s, Len(s) - n + 1, Len(s))

\* _build_prompt: the parts of the prompt that vary, the question and, for
\* each entry of the context, its source ('Unknown' without one) and content
BuildPrompt(query, context) ==
    [grounded |-> context # <<>>,
     documents |-> [i \in 1..Len(context) |->
                      [source |-> IF "metadata" \in DOMAIN context[i]
                                  THEN Get(context[i].metadata, "source")
                                  ELSE NoneVal,
                       content |-> Get(context[i], "content")]],
     question |-> query]

\* the messages handed to client.chat: the system message, the last
\* HistoryWindow messages of the user's history, the prompt
Messages(history, prompt, user_id, use_history) ==
    <<[role |-> "system", content |-> "system_content"]>>
    \o (IF use_history /\ Truthy(user_id) /\ user_id \in DOMAIN history
        THEN LastN(history[user_id], HistoryWindow) ELSE <<>>)
    \o <<[role |-> "user", content |-> prompt]>>

\* Remember keeping the first HistoryCap messages
RememberOldest(history, user_id, query, assistant_message) ==
    IF ~Truthy(user_id) THEN history
    ELSE LET old == IF user_id \in DOMAIN history THEN history[user_id] ELSE <<>>
             new == old \o <<[role |-> "user", content |-> query],
                             [role |-> "assistant", content |-> assistant_message]>>
         IN  [u \in DOMAIN history \cup {user_id} |->
                 IF u = user_id THEN SubSeq(new, 1, Min(Len(new), HistoryCap))
                 ELSE history[u]]

\* the history after a reply: the query and the reply appended to the
\* user's list, cut to its last HistoryCap messages
Remember(history, user_id, query, assistant_message) ==
    IF ~Truthy(user_id) THEN history
    ELSE LET old == IF user_id \in DOMAIN history THEN history[user_id] ELSE <<>>
             new == old \o <<[role |-> "user", content |-> query],
                             [role |-> "assistant", content |-> assistant_message]>>
         IN  [u \in DOMAIN history \cup {user_id} |->
                 IF u = user_id THEN LastN(new, HistoryCap) ELSE history[u]]

\* the outcome of client.chat: a reply, or an exception
ChatReply(text) == [raised |-> FALSE, text |-> text]
ChatError(text) == [raised |-> TRUE, text |-> text]

\* what a call of generate_response leaves: the value returned (the call
\* does not raise: except Exception catches what the client raises), the
\* history, whether the client was called and whether it replied
Answer(result, history, called, replied, sent) ==
    [result |-> result, raised |-> FALSE, history |-> history, called |-> called,
     replied |-> replied, sent |-> sent]

\* GenerateResponse storing the exchange before the client is called
GenerateResponseEager(history, query, context, user_id, use_history, outcome) ==
    LET q == SanitizeInput(query)
        messages == Messages(history, BuildPrompt(q, context), user_id, use_history)
        stored == Remember(history, user_id, q, outcome.text)
    IN  IF q = <<>> THEN Answer(InvalidQuestion, history, FALSE, FALSE, 0)
        ELSE IF outcome.raised
             THEN Answer(SanitizeError(outcome.text), stored, TRUE, FALSE, Len(messages))
             ELSE Answer(outcome.text, stored, TRUE, TRUE, Len(messages))

\* GenerateResponse letting the exception of client.chat through
GenerateResponseUncaught(history, query, context, user_id, use_history, outcome) ==
    LET q == SanitizeInput(query)
        messages == Messages(history, BuildPrompt(q, context), user_id, use_history)
    IN  IF q = <<>> THEN Answer(InvalidQuestion, history, FALSE, FALSE, 0)
        ELSE IF outcome.raised
             THEN [Answer(outcome.text, history, TRUE, FALSE, Len(messages))
                      EXCEPT !.raised = TRUE]
             ELSE Answer(outcome.text,
                         Remember(history, user_id, q, outcome.text),
                         TRUE, TRUE, Len(messages))

\* generate_response, given the outcome of client.chat
GenerateResponse(history, query, context, user_id, use_history, outcome) ==
    LET q == SanitizeInput(query)
        messages == Messages(history, BuildPrompt(q, context), user_id, use_history)
    IN  IF q = <<>> THEN Answer(InvalidQuestion, history, FALSE, FALSE, 0)
        ELSE IF outcome.raised
             THEN Answer(SanitizeError(outcome.text), history, TRUE, FALSE, Len(messages))
             ELSE Answer(outcome.text,
                         Remember(history, user_id, q, outcome.text),
                         TRUE, TRUE, Len(messages))

\* clear_history: the user's key is deleted, or with no user every key
ClearHistory(history, user_id) ==
    IF Truthy(user_id)
    THEN [u \in DOMAIN history \ {user_id} |-> history[u]]
    ELSE [u \in {} |-> <<>>]

----------------------------------------------------------------------------
(* The inputs the calls are made with. *)

wA == <<"a">>
wAbcde == <<"A", "b", "c", "d", "e">>
wAbcdef == <<"a", "b", "c", "d", "e", "f">>
wB == <<"b">>
wX == <<"x">>
wBang == <<"!">>

\* a text one word longer than a step of _chunk_text: two chunks, the second
\* the single word "!"
LongText == [i \in 1..(ChunkSize - Overlap + 1) |->
                IF i = ChunkSize - Overlap + 1 THEN wBang ELSE wX]

\* a text of the same length on which encode does not raise: two chunks
GuideText == [i \in 1..(ChunkSize - Overlap + 1) |-> wX]

\* add_text(text, metadata) calls
AddInputs ==
    { [text |-> <<wAbcde, wX>>,
       metadata |-> [source |-> <<"d", "2">>, collection |-> "col1",
                     category |-> "employment"]],
      [text |-> <<wAbcdef>>,
       metadata |-> [source |-> <<"d", "3">>, collection |-> "col1"]],
      [text |-> <<wB, wX>>,
       metadata |-> [source |-> <<"d", "4">>, collection |-> "col2",
                     category |-> "education"]],
      [text |-> <<wBang>>, metadata |-> [source |-> <<"d", "5">>]],   \* encode raises
      [text |-> <<>>, metadata |-> <<>>] }     \* blank text, metadata None

\* search(query, n_results, collection_name, category) calls
Queries ==
    { <<>>,                                                         \* no keyword
      << <<"F">> >>,                                                \* one keyword
      << <<"A">>, <<"b">>, <<"c">>, <<"d">>, <<"e">>, <<"f">>, <<"a">> >> }
CollectionNames == {NoneVal, "", "col1", "col2", "col3"}
Categories == {NoneVal, "employment", "education"}

\* the folders on disk
SubPath == <<"kb", "springworks">>
NewPath == <<"kb", "newcol">>
ManualsPath == <<"kb", "manuals">>
Folders == {knowledge_base_path, SubPath, ManualsPath, NewPath}
FolderLabels == {NoneVal, "col1"}

DirEntry(name, path) ==
    [name |-> name, isdir |-> TRUE, readable |-> FALSE, parts |-> <<>>, path |-> path]
FileEntry(name, readable, parts) ==
    [name |-> name, isdir |-> FALSE, readable |-> readable, parts |-> parts]


\* What os.listdir(folder_path) can hold.  (The root also holds the two
\* artifacts once they are written; .json and .npy are not supported
\* extensions.)  NewPath is never among the folders: a call on it creates an
\* empty folder and returns, and a later call on that folder finds no file.
ListDir(folder_path) ==
    IF folder_path = knowledge_base_path
    THEN << DirEntry(<<"s", "p", "r", "i", "n", "g", "w", "o", "r", "k", "s">>, SubPath),
            DirEntry(<<"m", "a", "n", "u", "a", "l", "s">>, ManualsPath),
            FileEntry(EmbeddingsPkl, TRUE, <<>>),
            FileEntry(<<"m", "e", "m", "o", ".", "d", "o", "c", "x">>, TRUE, << <<wA>>, <<wX>> >>),
            FileEntry(<<"b", "a", "d", ".", "t", "x", "t">>, FALSE, <<>>) >>
    ELSE IF folder_path = SubPath
    THEN << FileEntry(<<"e", "m", "p", ".", "p", "d", "f">>, TRUE, << <<wAbcde>>, <<wX>> >>),
            FileEntry(<<"e", "d", "u", ".", "t", "x", "t">>, TRUE, << <<wB>> >>),
            FileEntry(<<"m", "i", "s", "c", ".", "p", "d", "f">>, TRUE, << <<wAbcdef>> >>),
            FileEntry(<<"A", ".", "P", "D", "F">>, TRUE, << <<wB, wA>> >>) >>
    ELSE IF folder_path = ManualsPath
    THEN << FileEntry(<<"l", "o", "n", "g", ".", "t", "x", "t">>, TRUE, <<LongText>>),
            FileEntry(<<"n", "o", "t", "e", ".", "t", "x", "t">>, TRUE, << <<wA>> >>),
            FileEntry(<<"g", "u", "i", "d", "e", ".", "t", "x", "t">>, TRUE, <<GuideText>>),
            FileEntry(<<"b", "a", "n", "g", ".", "t", "x", "t">>, TRUE, << <<wBang>> >>) >>
    ELSE <<>>

FolderExists(folder_path) == folder_path \in folders

\* os.listdir(folder_path): the entries that are there, a subfolder when it
\* exists and embeddings.pkl when the legacy artifact does
Listing(folder_path) ==
    SelectSeq(ListDir(folder_path),
              LAMBDA f : IF f.isdir THEN FolderExists(f.path)
                         ELSE f.name # EmbeddingsPkl \/ Exists(pklFile))

Orders(listing) ==
    {[i \in 1..Len(listing) |-> listing[p[i]]] : p \in Permutations(1..Len(listing))}

\* SkipsFolder without the test for a store that already holds documents
SkipsFolderOnlyMissing(folder_path, docs) == ~FolderExists(folder_path)

\* the early returns of load_documents_from_folder: the folder is missing
\* (it is created), or the store already holds documents
SkipsFolder(folder_path, docs) == ~FolderExists(folder_path) \/ Len(docs) > 0

\* the strings the sanitizers are applied to
MaxInputLen == 2    \* every string of at most MaxInputLen characters of InputChars
MaxPad == 1         \* long strings: within MaxPad of MaxInputChars, 0..MaxPad control characters
MaxParts == 3       \* error texts: at most MaxParts pieces of ErrorPieces

InputChars == {"\\x00", "\\x1f", " ", "a", "~", "\\x7f", "\\x9f", "\\xa0"}

ShortTexts == UNION {[1..n -> InputChars] : n \in 0..MaxInputLen}

\* k control characters followed by n letters
Padded(n, k) == [i \in 1..(k + n) |-> IF i <= k THEN "\\x00" ELSE "a"]

LongTexts ==
    {Padded(n, k) : n \in (MaxInputChars - MaxPad)..(MaxInputChars + MaxPad),
                    k \in 0..MaxPad}

InputTexts == {NoneText} \cup ShortTexts \cup LongTexts

ErrorPieces ==
    { <<"C", "o", "n", "n", "e", "c", "t", "i", "o", "n">>,
      <<"T", "i", "m", "e", "o", "u", "t">>,
      <<"/">>, <<" ">>, <<"x">> }

ErrorTexts == {Concat(p) : p \in UNION {[1..n -> ErrorPieces] : n \in 0..MaxParts}}

\* generate_response(query, context, user_id, use_history) calls, and what
\* client.chat may do
ChatCall(query, context, user_id, use_history) ==
    [query |-> query, context |-> context, user_id |-> user_id,
     use_history |-> use_history]

SearchResult == [content |-> <<wA, wX>>, metadata |-> [source |-> <<"d", "2">>]]

ChatCalls ==
    { ChatCall(<<"h", "\\x00", "i">>, <<>>, "u1", TRUE),
      ChatCall(<<"a">>, <<>>, "u1", TRUE),
      ChatCall(NoneText, <<>>, "u1", TRUE),
      ChatCall(<<"a">>, <<SearchResult>>, "u2", TRUE),
      ChatCall(<<"a">>, <<>>, "u2", FALSE),
      ChatCall(<<"\\x00">>, <<SearchResult>>, "u2", TRUE),
      ChatCall(<<"a">>, <<>>, "", TRUE),
      ChatCall(<<"h", "\\x00", "i">>, <<>>, NoneVal, TRUE) }

UserIds == {NoneVal, "u1", "u2"}
ChatOutcomes ==
    { ChatReply(<<"o", "k">>),
      ChatError(<<"C", "o", "n", "n", "e", "c", "t", "i", "o", "n", " ", "r", "e", "f", "u", "s", "e", "d">>),
      ChatError(<<"'", "m", "e", "s", "s", "a", "g", "e", "'">>) }

----------------------------------------------------------------------------
(* The state machine. *)

Fresh ==
    /\ documents = <<>>
    /\ metadatas = <<>>
    /\ embeddings = <<>>
    /\ alive = TRUE
    /\ metaFile = AbsentJson
    /\ embFile = AbsentNpy
    /\ faults = 0
    /\ saved = NoSnapshot
    /\ conversation_history = [u \in {} |-> <<>>]
    /\ last = [op |-> "construct", raised |-> FALSE]

\* a new knowledge base on a directory that is empty or holds only the legacy
\* artifact, on a disk that does not fail
Init ==
    /\ Fresh
    /\ unreliable = FALSE
    /\ pklFile \in {AbsentPkl, LegacyPkl}
    /\ folders = {knowledge_base_path, SubPath}

\* a new knowledge base on an empty directory, on a disk that may fail a save
InitFaulty ==
    /\ Fresh
    /\ unreliable = TRUE
    /\ pklFile = AbsentPkl
    /\ folders = {knowledge_base_path, SubPath}

\* a new knowledge base next to a folder of files on which encode can raise
InitIngest ==
    /\ Fresh
    /\ unreliable = FALSE
    /\ pklFile = AbsentPkl
    /\ folders = {knowledge_base_path, ManualsPath}

\* search changes nothing but last: the calls that may follow a search are
\* those that may follow the state it was made in, so a behaviour is taken
\* up to its first search
Running == last.op # "search"

Current == Run(Store(documents, metadatas, embeddings),
               [meta |-> metaFile, emb |-> embFile], saved, 0, 0)

\* the store and the disk as an operation leaves them
Commit(r) ==
    /\ documents' = r.st.documents
    /\ metadatas' = r.st.metadatas
    /\ embeddings' = r.st.embeddings
    /\ metaFile' = r.disk.meta
    /\ embFile' = r.disk.emb
    /\ saved' = r.saved
    /\ faults' = faults + r.errors

\* the ways the saves of an operation may end: n saves, the failures within
\* what is left of MaxFaults
SavePlans(n) ==
    {outs \in [1..n -> SaveOutcomes] :
        LET failures == Cardinality({k \in 1..n : outs[k] # "ok"})
        IN  IF unreliable THEN faults + failures <= MaxFaults ELSE failures = 0}

\* kb.add_text(text, metadata)
AddTextCall ==
    /\ Running
    /\ alive
    /\ Len(documents) < MaxDocs
    /\ \E inp \in AddInputs :
         \E outs \in SavePlans(AddText(Current, inp.text, inp.metadata, <<"ok">>).saves) :
            LET r == AddText(Current, inp.text, inp.metadata, outs)
            IN  /\ Commit(r)
                /\ last' = [op |-> "add_text", raised |-> AddTextRaises(inp.text),
                            metadata |-> inp.metadata,
                            caller_metadata |-> CallerMetadata(inp.metadata),
                            saves |-> r.saves, errors |-> r.errors]
    /\ UNCHANGED <<alive, unreliable, pklFile, folders, conversation_history>>

\* kb.clear()
ClearCall ==
    /\ Running
    /\ alive
    /\ \E outs \in SavePlans(1) :
            LET r == Clear(Current, outs)
            IN  /\ Commit(r)
                /\ last' = [op |-> "clear", dropped |-> Len(documents),
                            saves |-> r.saves, errors |-> r.errors]
    /\ UNCHANGED <<alive, unreliable, pklFile, folders, conversation_history>>

\* kb.load_documents_from_folder(folder_path, collection_name)
LoadFolderCall ==
    /\ Running
    /\ alive
    /\ \E folder_path \in Folders, collection_name \in FolderLabels :
         IF SkipsFolder(folder_path, documents)
         THEN \* os.makedirs and return, or "already loaded ..., skipping"
              /\ last' = [op |-> "load_folder", ran |-> FALSE,
                          existed |-> FolderExists(folder_path),
                          saves |-> 0, errors |-> 0]
              /\ UNCHANGED <<documents, metadatas, embeddings, metaFile, embFile,
                             saved, faults>>
         ELSE \E entries \in Orders(Listing(folder_path)) :
                LET collection == CollectionLabel(folder_path, collection_name)
                    n == IngestEntries(Current, entries, collection,
                                       [k \in 1..Len(entries) |-> "ok"]).saves
                IN  \E outs \in SavePlans(n) :
                       LET r == IngestEntries(Current, entries, collection, outs)
                       IN  /\ Commit(r)
                           /\ last' = [op |-> "load_folder", ran |-> TRUE,
                                       folder_path |-> folder_path,
                                       collection_name |-> collection_name,
                                       saves |-> r.saves, errors |-> r.errors]
    /\ UNCHANGED <<alive, unreliable, pklFile, folders, conversation_history>>

\* KnowledgeBase(knowledge_base_path) again: the process starts anew
ConstructCall ==
    LET c == Construct([meta |-> metaFile, emb |-> embFile])
    IN  /\ Running
        /\ documents' = c.documents
        /\ metadatas' = c.metadatas
        /\ embeddings' = c.embeddings
        /\ alive' = ~c.raised
        /\ last' = [op |-> "construct", raised |-> c.raised]
        /\ UNCHANGED <<metaFile, embFile, pklFile, folders, unreliable, faults, saved,
                       conversation_history>>

\* kb.search(query, n_results, collection_name, category)
SearchCall ==
    /\ Running
    /\ alive
    /\ \E query \in Queries, n_results \in 0..MaxResults,
          collection_name \in CollectionNames, category \in Categories :
         \E order \in SearchOrders(Current.st, query, collection_name, category) :
            LET s == Search(Current.st, query, n_results, collection_name, category, order)
            IN  last' = [op |-> "search", query |-> query, n_results |-> n_results,
                         collection_name |-> collection_name, category |-> category,
                         raised |-> s.raised, computed |-> s.computed,
                         results |-> s.results,
                         top_indices |-> s.top_indices,
                         boosted_similarities |-> s.boosted_similarities]
    /\ UNCHANGED <<documents, metadatas, embeddings, alive, metaFile, embFile,
                   pklFile, folders, unreliable, faults, saved, conversation_history>>

Next == AddTextCall \/ ClearCall \/ LoadFolderCall \/ ConstructCall \/ SearchCall

\* the calls, on a disk on which every save succeeds
Spec == Init /\ [][Next]_vars

\* the calls that write or read the artifacts, on a disk that may fail
NextStore == AddTextCall \/ ClearCall \/ LoadFolderCall \/ ConstructCall

SpecFaulty == InitFaulty /\ [][NextStore]_vars

\* the same calls on the folder of long and failing files
SpecIngest == InitIngest /\ [][NextStore]_vars

\* _chunk_text applied on its own: kb._chunk_text(text, chunk_size, overlap)
Letters == <<"a", "b", "c", "d", "e", "f", "g", "h", "i", "j">>

TextOfWords(n) == [i \in 1..n |-> <<Letters[i]>>]

InitChunk ==
    /\ Fresh
    /\ unreliable = FALSE
    /\ pklFile = AbsentPkl
    /\ folders = {knowledge_base_path}

ChunkTextCall ==
    /\ \E n \in 0..MaxWords, chunk_size \in 1..MaxChunkSize, overlap \in 0..MaxOverlap :
          last' = [op |-> "chunk_text", words |-> TextOfWords(n),
                   chunk_size |-> chunk_size, overlap |-> overlap,
                   raised |-> ChunkTextRaises(chunk_size, overlap),
                   chunks |-> IF ChunkTextRaises(chunk_size, overlap) THEN <<>>
                              ELSE ChunkText(TextOfWords(n), chunk_size, overlap)]
    /\ UNCHANGED <<documents, metadatas, embeddings, alive, metaFile, embFile,
                   pklFile, folders, unreliable, faults, saved, conversation_history>>

NextChunk == ChunkTextCall

SpecChunk == InitChunk /\ [][NextChunk]_vars

\* the knowledge base, which the assistant's calls leave alone
kbVars == <<documents, metadatas, embeddings, alive, metaFile, embFile, pklFile,
            folders, unreliable, faults, saved>>

\* a new LlamaAI: no history
InitAssistant ==
    /\ Fresh
    /\ unreliable = FALSE
    /\ pklFile = AbsentPkl
    /\ folders = {knowledge_base_path}

\* LlamaAI._sanitize_input(text)
SanitizeInputCall ==
    /\ \E text \in InputTexts :
          last' = [op |-> "sanitize_input", text |-> text, result |-> SanitizeInput(text)]
    /\ UNCHANGED <<kbVars, conversation_history>>

\* LlamaAI._sanitize_error(Exception(error))
SanitizeErrorCall ==
    /\ \E error \in ErrorTexts :
          last' = [op |-> "sanitize_error", error |-> error, result |-> SanitizeError(error)]
    /\ UNCHANGED <<kbVars, conversation_history>>

NextSanitize == SanitizeInputCall \/ SanitizeErrorCall

\* the two sanitizers applied on their own
SpecSanitize == InitAssistant /\ [][NextSanitize]_vars

\* llama.generate_response(query, context, user_id, use_history)
GenerateResponseCall ==
    /\ \E call \in ChatCalls, outcome \in ChatOutcomes :
          LET a == GenerateResponse(conversation_history, call.query, call.context,
                                    call.user_id, call.use_history, outcome)
          IN  /\ conversation_history' = a.history
              /\ last' = [op |-> "generate_response", query |-> call.query,
                          user_id |-> call.user_id, outcome |-> outcome,
                          held |-> IF call.user_id \in DOMAIN conversation_history
                                   THEN Len(conversation_history[call.user_id])
                                   ELSE 0,
                          raised |-> a.raised, result |-> a.result,
                          called |-> a.called, replied |-> a.replied, sent |-> a.sent]
    /\ UNCHANGED kbVars

\* llama.clear_history(user_id)
ClearHistoryCall ==
    /\ \E user_id \in UserIds :
          /\ conversation_history' = ClearHistory(conversation_history, user_id)
          /\ last' = [op |-> "clear_history", user_id |-> user_id]
    /\ UNCHANGED kbVars

NextChat == GenerateResponseCall \/ ClearHistoryCall

\* the conversation: replies, failures and resets in any order
SpecChat == InitAssistant /\ [][NextChat]_vars

----------------------------------------------------------------------------
(* Properties. *)

TheStore == Store(documents, metadatas, embeddings)
TheDisk == [meta |-> metaFile, emb |-> embFile]

\* a search has returned; its candidates, scores and ranks
Searched == last.op = "search" /\ ~last.raised
Candidates == FilteredIndices(TheStore, last.collection_name, last.category)
IsCandidate(idx) == \E i \in 1..Len(Candidates) : Candidates[i] = idx
Score(idx) == BoostedSimilarity(TheStore, last.query, idx, last.collection_name)
Cosine(idx) == CosineSimilarity(Encode(last.query), embeddings[idx])
Matches(idx) == KeywordMatches(QueryKeywords(last.query), documents[idx])
Ranks == 1..Len(last.top_indices)
Returned(idx) == \E r \in Ranks : last.top_indices[r] = idx
RankOf(idx) == CHOOSE r \in Ranks : last.top_indices[r] = idx

\* C1: in every store state the three parallel arrays have equal length.
LengthInvariant ==
    alive => /\ Len(documents) = Len(metadatas)
             /\ Len(metadatas) = Len(embeddings)

\* C2: whenever add_text, load_documents_from_folder or clear returns and no
\* save failed, a fresh KnowledgeBase on the same path holds the in-memory
\* documents and metadatas, every key included.
PersistedEqualsMemory ==
    (/\ last.op \in {"add_text", "load_folder", "clear"}
     /\ (last.op = "add_text" => ~last.raised)
     /\ faults = 0)
        => /\ Construct(TheDisk).documents = documents
           /\ Construct(TheDisk).metadatas = metadatas

\* C3: after a successful _save_index, a fresh KnowledgeBase on the same path
\* holds the saved documents and metadatas in the same order, and one
\* embedding row per document in the same row order.
\* (On a disk that fails no save this holds; after a save that failed between
\* the two artifacts the store that is saved can already hold more rows than
\* documents, see C1, and the rows loaded back are not one per document.)
PersistenceRoundTrip ==
    (last.op = "construct" /\ saved.valid)
        => /\ ~last.raised
           /\ documents = saved.documents
           /\ metadatas = saved.metadatas
           /\ Len(embeddings) = Len(documents)
           /\ embeddings = saved.embeddings

\* C4: search with collection_name = A returns only chunks whose collection
\* is exactly A, for any query, n_results and category.
FilterCorrectness ==
    (Searched /\ Truthy(last.collection_name))
        => \A r \in Ranks :
              /\ Get(last.results[r].metadata, "collection") = last.collection_name
              /\ Get(metadatas[last.top_indices[r]], "collection") = last.collection_name

\* C4 witness: a filtered search that returns chunks and leaves out a chunk
\* of another collection
FilterReached ==
    /\ Searched
    /\ Truthy(last.collection_name)
    /\ last.results # <<>>
    /\ \E i \in 1..Len(metadatas) :
          Get(metadatas[i], "collection") \notin {last.collection_name, NoneVal}

\* the case of C5: a collection with chunks, none of them of the category asked for
CategoryMissesCollection ==
    /\ Searched
    /\ Truthy(last.collection_name)
    /\ Truthy(last.category)
    /\ WithCollection(metadatas, last.collection_name) # <<>>
    /\ WithCategory(metadatas, WithCollection(metadatas, last.collection_name),
                    last.category) = <<>>

\* C5 as stated: with a collection and a category filter, a collection that
\* has chunks but none of the category, search falls back to the collection's
\* chunks and does not return an empty sequence.
SoftCategoryFallback ==
    (CategoryMissesCollection /\ last.n_results >= 1) => last.results # <<>>

\* C5 as amended: in that case search returns an empty sequence; the category
\* is a hard filter inside a collection too.
HardCategoryInCollection ==
    CategoryMissesCollection => last.results = <<>>

\* C5 witness: such a search was made
CategoryMissReached == CategoryMissesCollection /\ last.n_results >= 1

\* C6: with a category filter and no collection filter, every returned chunk
\* has that category, and the result is empty when no chunk has it.
HardCategoryFilter ==
    (Searched /\ ~Truthy(last.collection_name) /\ Truthy(last.category))
        => /\ \A r \in Ranks : Get(last.results[r].metadata, "category") = last.category
           /\ (\A i \in 1..Len(metadatas) : Get(metadatas[i], "category") # last.category)
                 => last.results = <<>>

\* C6 witness: a category-only search that returns chunks and leaves out a
\* chunk without that category
CategoryFilterReached ==
    /\ Searched
    /\ ~Truthy(last.collection_name)
    /\ Truthy(last.category)
    /\ last.results # <<>>
    /\ \E i \in 1..Len(metadatas) : Get(metadatas[i], "category") # last.category

\* C7: for every n_results >= 0 and every non-empty candidate set, search
\* returns exactly min(n_results, candidate_count) records.
ResultCount ==
    (Searched /\ Candidates # <<>>)
        => Len(last.results) = Min(last.n_results, Len(Candidates))

\* C8: the distance of every returned record, at every rank, is 1 minus the
\* blended score of that same returned chunk.
ReportedDistance ==
    Searched => \A r \in Ranks :
                   last.results[r].distance = 100 - Score(last.top_indices[r])

\* descending blended score along the ranks, and no candidate left out that
\* scores strictly higher than a returned one
DescendingTopScores ==
    /\ \A r1, r2 \in Ranks :
          r1 < r2 => Score(last.top_indices[r1]) >= Score(last.top_indices[r2])
    /\ \A i \in 1..Len(Candidates) : \A r \in Ranks :
          ~Returned(Candidates[i]) => Score(Candidates[i]) <= Score(last.top_indices[r])

\* C9 as stated: the results are the highest-scoring candidates in descending
\* score order, and candidates with equal blended score appear in store order.
RankingWithStableTies ==
    Searched =>
        /\ DescendingTopScores
        /\ \A r1, r2 \in Ranks :
              (r1 < r2 /\ Score(last.top_indices[r1]) = Score(last.top_indices[r2]))
                 => last.top_indices[r1] < last.top_indices[r2]

\* C9 as amended: the results are the highest-scoring candidates in
\* descending score order; nothing is promised about equal scores.
RankingOrder == Searched => DescendingTopScores

\* C9 witness: a search that ranks two chunks of different score and leaves
\* a candidate out
RankingReached ==
    /\ Searched
    /\ Len(last.top_indices) >= 2
    /\ Len(last.top_indices) < Len(Candidates)
    /\ Score(last.top_indices[1]) > Score(last.top_indices[2])

\* i is ranked at or above j: if j is returned, i is returned before it
RankedAtOrAbove(i, j) == Returned(j) => (Returned(i) /\ RankOf(i) < RankOf(j))

\* the boost of m matches is below the cap of this search
BelowCap(m) ==
    IF Truthy(last.collection_name) THEN m * BoostPerMatchCollection < BoostCapCollection
    ELSE m * BoostPerMatch < BoostCap

\* C10 as stated: of two candidates with the same cosine similarity, the one
\* matching strictly more query keywords is ranked at or above the other,
\* for every match count and either store order.
KeywordBoostMonotone ==
    Searched => \A i, j \in Range(Candidates) :
                   (Cosine(i) = Cosine(j) /\ Matches(i) > Matches(j))
                      => RankedAtOrAbove(i, j)

\* C10 as amended: the same, whenever the smaller match count is below the
\* boost cap (fewer than 5 matches).
KeywordBoostMonotoneBelowCap ==
    Searched => \A i, j \in Range(Candidates) :
                   (Cosine(i) = Cosine(j) /\ Matches(i) > Matches(j) /\ BelowCap(Matches(j)))
                      => RankedAtOrAbove(i, j)

\* C10 witness: two returned candidates of equal cosine similarity, the
\* lower-ranked one with fewer matches, below the cap
KeywordBoostReached ==
    /\ Searched
    /\ \E i, j \in Range(Candidates) :
          /\ Cosine(i) = Cosine(j)
          /\ Matches(i) > Matches(j)
          /\ BelowCap(Matches(j))
          /\ Returned(i)
          /\ Returned(j)

\* C11: search returns an empty sequence without raising whenever the store
\* is empty, and whenever a collection filter is given that no chunk's
\* collection equals; in the latter case no similarity is computed.
NoResultsIsData ==
    last.op = "search" =>
        /\ Len(documents) = 0 => (~last.raised /\ last.results = <<>>)
        /\ (/\ Truthy(last.collection_name)
            /\ \A i \in 1..Len(metadatas) :
                  Get(metadatas[i], "collection") # last.collection_name)
              => (~last.raised /\ last.results = <<>> /\ ~last.computed)

\* C11 witness: a search of a store that holds chunks, for a collection none
\* of them has
NoResultsReached ==
    /\ last.op = "search"
    /\ Len(documents) > 0
    /\ last.collection_name = "col3"
    /\ last.n_results >= 1
    /\ last.results = <<>>

\* C12: load_documents_from_folder called on a store that holds at least one
\* chunk leaves documents, metadatas, embeddings and the two artifacts
\* unchanged, whatever the folder and the collection label.
FolderLoadNoOp ==
    [][(last'.op = "load_folder" /\ Len(documents) > 0)
          => UNCHANGED <<documents, metadatas, embeddings, metaFile, embFile>>]_vars

\* C12 witness: the call was made on an existing folder with a store that
\* holds chunks
FolderLoadSkipped ==
    /\ last.op = "load_folder"
    /\ ~last.ran
    /\ last.existed
    /\ Len(documents) > 0
    /\ Exists(metaFile)

\* C13: a chunk's collection label keeps its value over every later
\* load_documents_from_folder, add_text and search call (no clear() between):
\* each such call leaves every chunk that carries a label in its place with
\* the same label.
CollectionLabelStable ==
    [][(last'.op \in {"load_folder", "add_text", "search"})
          => \A i \in 1..Len(metadatas) :
                Get(metadatas[i], "collection") # NoneVal
                   => /\ i <= Len(metadatas')
                      /\ documents'[i] = documents[i]
                      /\ Get(metadatas'[i], "collection") = Get(metadatas[i], "collection")]_vars

\* C13 witness: a chunk labelled by a folder load, and an add_text call made
\* after it with another label
LabelKeptAfterAddText ==
    /\ last.op = "add_text"
    /\ last.saves = 1
    /\ Len(metadatas) >= 2
    /\ Get(metadatas[1], "type") = "docx"
    /\ Get(metadatas[1], "collection") = "col1"
    /\ Get(metadatas[Len(metadatas)], "collection") = "col2"

\* the collection value C14 names for the load that was last made
ExpectedCollection ==
    IF last.collection_name # NoneVal THEN last.collection_name
    ELSE IF last.folder_path # knowledge_base_path
         THEN last.folder_path[Len(last.folder_path)]
         ELSE NoneVal

\* C14: after load_documents_from_folder has run on an empty store, every
\* chunk it added carries the same collection value: the explicit
\* collection_name when one is given, otherwise the folder's base name when
\* the folder is not the knowledge base's root, otherwise no collection key.
CollectionStamping ==
    (last.op = "load_folder" /\ last.ran)
        => \A i \in 1..Len(metadatas) :
              IF ExpectedCollection = NoneVal
              THEN "collection" \notin DOMAIN metadatas[i]
              ELSE /\ "collection" \in DOMAIN metadatas[i]
                   /\ metadatas[i]["collection"] = ExpectedCollection

\* C14 witness: a load of a subfolder without an explicit label that added
\* chunks of several files
StampedByFolderName ==
    /\ last.op = "load_folder"
    /\ last.ran
    /\ last.collection_name = NoneVal
    /\ last.folder_path = SubPath
    /\ Len(metadatas) >= 3
    /\ metadatas[1]["collection"] = "springworks"

\* C15: constructing a KnowledgeBase on a directory that holds only the legacy
\* artifact loads its chunks, writes the two current artifacts and deletes the
\* legacy one.  So no construction ends with the legacy artifact still the
\* only artifact of the directory.
LegacyMigration ==
    last.op = "construct"
        => ~(Exists(pklFile) /\ ~Exists(metaFile) /\ ~Exists(embFile))

\* C16: when both current artifacts exist and reading either of them fails,
\* the construction does not raise and the store is empty in all three lists.
LoadFailureGivesEmptyStore ==
    (/\ last.op = "construct"
     /\ Exists(metaFile) /\ Exists(embFile)
     /\ (metaFile.state = "corrupt" \/ embFile.state = "corrupt"))
        => /\ ~last.raised
           /\ alive
           /\ documents = <<>> /\ metadatas = <<>> /\ embeddings = <<>>

\* C17: in every on-disk state, also after a save that failed at any point,
\* the two artifacts describe the same number of chunks: neither is partly
\* written, they are there together, and metadata.json holds as many
\* documents as embeddings.npy holds rows.
SaveAtomicity ==
    /\ metaFile.state # "corrupt" /\ embFile.state # "corrupt"
    /\ Exists(metaFile) <=> Exists(embFile)
    /\ (metaFile.state = "ok" /\ embFile.state = "ok")
          => /\ Len(metaFile.content.documents) = Len(NpRows(embFile.content))
             /\ Len(metaFile.content.metadatas) = Len(NpRows(embFile.content))

\* C18: after clear() returns the three lists are empty, get_stats reports
\* zero documents, and when the save did not fail a fresh KnowledgeBase on
\* the same path is empty as well.
ClearEmptiesStore ==
    last.op = "clear"
        => /\ documents = <<>> /\ metadatas = <<>> /\ embeddings = <<>>
           /\ GetStats(TheStore).total_documents = 0
           /\ last.errors = 0
                 => /\ ~Construct(TheDisk).raised
                    /\ Construct(TheDisk).documents = <<>>
                    /\ Construct(TheDisk).metadatas = <<>>
                    /\ Construct(TheDisk).embeddings = <<>>

\* C18 witness: clear() on a store that held chunks and had saved them
ClearedNonEmptyStore ==
    /\ last.op = "clear"
    /\ last.dropped >= 2
    /\ last.errors = 0
    /\ metaFile = OkFile(NoJson)

\* C19: for every text of at least one word and fewer than chunk_size words,
\* with overlap < chunk_size, _chunk_text returns exactly one chunk, made of
\* all the words of the text.
ChunkingRoundTrip ==
    (/\ last.op = "chunk_text"
     /\ Len(last.words) >= 1
     /\ Len(last.words) < last.chunk_size
     /\ last.overlap < last.chunk_size)
        => /\ ~last.raised
           /\ last.chunks = <<last.words>>

\* the files of the folder last loaded, and the chunks the store holds of one
LoadedFiles == {f \in Range(Listing(last.folder_path)) : ~f.isdir /\ f.name # EmbeddingsPkl}
ChunksOf(f) == {i \in 1..Len(metadatas) : Get(metadatas[i], "source") = f.name}

\* the ingestion of f raises: the file cannot be read, or encode raises on
\* one of the chunks of its text
IngestionRaises(f) == ~f.readable \/ AddTextRaises(Concat(f.parts))

\* C20: during load_documents_from_folder a file whose ingestion raises
\* contributes no chunk to the store, and every other supported file of the
\* folder is still ingested (the files with an extension of '.pdf', '.docx'
\* or '.txt' as written).
IngestionErrorIsolation ==
    (last.op = "load_folder" /\ last.ran)
        => \A f \in LoadedFiles :
              IngestionRaises(f)
                 => /\ ChunksOf(f) = {}
                    /\ \A g \in LoadedFiles :
                          (/\ ~IngestionRaises(g)
                           /\ SplitExt(g.name) \in supported_extensions)
                             => ChunksOf(g) # {}

\* C24: for every text of more than chunk_size words, with
\* 0 < overlap < chunk_size, every two adjacent chunks, the last two included,
\* share overlap words: the last overlap words of the one are the first
\* overlap words of the next.
OverlapProperty ==
    (/\ last.op = "chunk_text"
     /\ Len(last.words) > last.chunk_size
     /\ 0 < last.overlap
     /\ last.overlap < last.chunk_size)
        => /\ ~last.raised
           /\ \A j \in 1..(Len(last.chunks) - 1) :
                 LET this == last.chunks[j]
                     next == last.chunks[j + 1]
                 IN  /\ Len(this) >= last.overlap
                     /\ Len(next) >= last.overlap
                     /\ SubSeq(this, Len(this) - last.overlap + 1, Len(this))
                           = SubSeq(next, 1, last.overlap)

\* the windows of chunk_size words taken every step words
Windows(words, chunk_size, step) ==
    [j \in 1..((Len(words) + step - 1) \div step) |->
        SubSeq(words, (j - 1) * step + 1,
               Min((j - 1) * step + chunk_size, Len(words)))]

\* C25: for every chunk_size >= 1 and overlap >= chunk_size, _chunk_text does
\* not raise and returns the windows taken with a step of max(1, chunk_size),
\* which cover every word of the text.
ChunkerForwardProgress ==
    (/\ last.op = "chunk_text"
     /\ last.chunk_size >= 1
     /\ last.overlap >= last.chunk_size)
        => /\ ~last.raised
           /\ Len(last.words) >= 1
                 => last.chunks = Windows(last.words, last.chunk_size, last.chunk_size)

\* the chunks that carry the source value s, in store order
WithSource(s) == SelectSeq(Indices(Len(metadatas)), LAMBDA i : Get(metadatas[i], "source") = s)

\* the add_text call left the mapping it was given as it was
CallerMappingKept == last.op = "add_text" => last.caller_metadata = last.metadata

\* C26 as stated: for every source value the chunk_index values of the stored
\* chunks of that source are pairwise distinct and are 0..n-1, and add_text
\* leaves the caller's mapping unmodified.
ChunkIndexPerSource ==
    alive =>
       /\ \A i \in 1..Len(metadatas) :
             "source" \in DOMAIN metadatas[i] =>
                LET mine == WithSource(metadatas[i]["source"])
                IN  /\ \A a, b \in 1..Len(mine) :
                          a # b => metadatas[mine[a]]["chunk_index"]
                                      # metadatas[mine[b]]["chunk_index"]
                    /\ {metadatas[mine[a]]["chunk_index"] : a \in 1..Len(mine)}
                          = 0..(Len(mine) - 1)
       /\ CallerMappingKept

\* C26, amended: chunk_index is the position of the chunk within the text of
\* the add_text call that appended it.  Every stored chunk is numbered 0 or
\* comes right after the chunk numbered one less, of the same source; and
\* add_text leaves the caller's mapping unmodified.
ChunkIndexPerCall ==
    alive =>
       /\ \A i \in 1..Len(metadatas) :
             LET k == metadatas[i]["chunk_index"]
             IN  \/ k = 0
                 \/ /\ i > 1
                    /\ metadatas[i - 1]["chunk_index"] = k - 1
                    /\ Get(metadatas[i - 1], "source") = Get(metadatas[i], "source")
       /\ CallerMappingKept

\* a file of two chunks was ingested after another document
TwoChunkFileIngested ==
    /\ alive
    /\ last.op = "load_folder"
    /\ \E i \in 3..Len(metadatas) :
          /\ metadatas[i]["chunk_index"] = 1
          /\ metadatas[i - 1]["chunk_index"] = 0
          /\ metadatas[i - 2]["chunk_index"] = 0

\* the number of distinct lower-cased words of the query that occur, as
\* substrings, in the lower-cased text of the chunk at idx
MatchCount(idx) ==
    LET keywords == {LowerWord(last.query[i]) : i \in 1..Len(last.query)}
        text == documents[idx]
    IN  Cardinality({kw \in keywords :
                        \E j \in 1..Len(text) : Substring(kw, LowerWord(text[j]))})

\* what search added to the cosine similarity of its i-th candidate
BoostOfCandidate(i) == last.boosted_similarities[i] - Cosine(Candidates[i])

\* C27: the boost added to a candidate's cosine similarity is
\* min(match_count * 0.15, 0.7) when a collection filter is active and
\* min(match_count * 0.10, 0.5) when it is not, category-only searches
\* included; a query without keywords gives a boost of 0.
BoostFormula ==
    (Searched /\ last.computed)
        => /\ Len(last.boosted_similarities) = Len(Candidates)
           /\ \A i \in 1..Len(Candidates) :
                 LET match_count == MatchCount(Candidates[i])
                 IN  /\ BoostOfCandidate(i) =
                           IF Truthy(last.collection_name)
                           THEN Min(match_count * 15, 70)
                           ELSE Min(match_count * 10, 50)
                     /\ last.query = <<>> => BoostOfCandidate(i) = 0

\* a search within a collection boosted a candidate that matches one keyword
BoostedInCollection ==
    /\ Searched
    /\ last.computed
    /\ Truthy(last.collection_name)
    /\ \E i \in 1..Len(Candidates) : BoostOfCandidate(i) = 15

\* the type an ingestor writes into the metadata of its chunks
IngestorType(ext) ==
    IF ext = ExtPdf THEN "pdf" ELSE IF ext = ExtDocx THEN "docx" ELSE "txt"

\* C28: load_documents_from_folder on an empty store hands every regular
\* file whose extension, lower-cased, is '.pdf', '.docx' or '.txt' to the
\* ingestor of that type, and skips subdirectories and embeddings.pkl: every
\* such file that can be read and has text has chunks in the store, of its
\* type, and a skipped entry has none.
FolderDispatch ==
    (last.op = "load_folder" /\ last.ran)
        => \A f \in Range(Listing(last.folder_path)) :
              IF f.isdir \/ f.name = EmbeddingsPkl
              THEN ChunksOf(f) = {}
              ELSE (/\ LowerWord(SplitExt(f.name)) \in supported_extensions
                    /\ f.readable
                    /\ Concat(f.parts) # <<>>
                    /\ ~AddTextRaises(Concat(f.parts)))
                      => /\ ChunksOf(f) # {}
                         /\ \A i \in ChunksOf(f) :
                               metadatas[i]["type"] = IngestorType(LowerWord(SplitExt(f.name)))

\* the three messages _sanitize_error can return
FixedMessages == {UnableToConnect, RequestTimedOut, ErrorOccurred}

\* kw occurs in text, whatever the case of the letters of text
Mentions(kw, text) == Substring(kw, LowerWord(text))

\* kw occurs in text outside a path: no '/' followed by a character other
\* than whitespace comes before the occurrence in the same run of
\* non-whitespace characters
MentionsOutsidePath(kw, text) ==
    \E o \in 0..(Len(text) - Len(kw)) :
       /\ \A i \in 1..Len(kw) : LowerChar(text[o + i]) = kw[i]
       /\ ~\E p \in 1..o :
             /\ text[p] = "/"
             /\ \A j \in p..(o + 1) : ~IsSpace(text[j])

\* C21 as stated: _sanitize_error returns one of three fixed messages, and
\* "Unable to connect to the AI service" whenever the error text mentions
\* 'connection' in any case, whether or not it mentions 'timeout'.
ErrorSanitization ==
    last.op = "sanitize_error"
        => /\ last.result \in FixedMessages
           /\ Mentions(KwConnection, last.error) => last.result = UnableToConnect

\* C21, amended: _sanitize_error returns one of three fixed messages, and
\* "Unable to connect to the AI service" whenever the error text mentions
\* 'connection' in any case outside a path, whether or not it mentions
\* 'timeout'; a mention inside a path is removed with the path before the
\* test.
ErrorSanitizationOutsidePaths ==
    last.op = "sanitize_error"
        => /\ last.result \in FixedMessages
           /\ MentionsOutsidePath(KwConnection, last.error)
                 => last.result = UnableToConnect

\* an error that mentions both 'connection' and 'timeout' was sanitized
ConnectionAndTimeoutSanitized ==
    /\ last.op = "sanitize_error"
    /\ MentionsOutsidePath(KwConnection, last.error)
    /\ MentionsOutsidePath(KwTimeout, last.error)
    /\ last.result = UnableToConnect

\* C22: _sanitize_input returns its input with every control character
\* (U+0000-U+001F, U+007F-U+009F) removed and then cut to its first 10000
\* characters: the result holds no control character and at most 10000
\* characters; an empty or None input gives the empty string.
InputSanitization ==
    last.op = "sanitize_input"
        => IF last.text = NoneText \/ last.text = <<>>
           THEN last.result = <<>>
           ELSE LET kept == SelectSeq(last.text, LAMBDA c : ~IsControl(c))
                IN  /\ last.result = SubSeq(kept, 1, Min(Len(kept), 10000))
                    /\ Len(last.result) <= 10000
                    /\ \A i \in 1..Len(last.result) : ~IsControl(last.result[i])

\* a text of more than 10000 characters, a control character among its
\* first 10000, was cut to 10000 characters
LongInputSanitized ==
    /\ last.op = "sanitize_input"
    /\ Len(last.text) > 10000
    /\ \E i \in 1..10000 : IsControl(last.text[i])
    /\ Len(last.result) = 10000

\* C23: generate_response does not raise when the client call fails and
\* returns a string in every case: the fixed text "I didn't receive a valid
\* question.", without calling the client, when the query is empty after
\* sanitization; the sanitized error message when the client call fails; the
\* model's reply when it succeeds.
ResponseAlwaysReturned ==
    last.op = "generate_response"
        => /\ ~last.raised
           /\ IF SanitizeInput(last.query) = <<>>
              THEN ~last.called /\ last.result = InvalidQuestion
              ELSE /\ last.called
                   /\ IF last.outcome.raised
                      THEN /\ last.result = SanitizeError(last.outcome.text)
                           /\ last.result \in FixedMessages
                      ELSE last.result = last.outcome.text

\* a client call failed and the caller got the sanitized message
ClientFailureAnswered ==
    /\ last.op = "generate_response"
    /\ last.called
    /\ last.outcome.raised
    /\ last.result = UnableToConnect

\* the messages of user u; none when u has no history
HistoryOf(history, u) == IF u \in DOMAIN history THEN history[u] ELSE <<>>

\* every history has an even length of at most 10 and alternates user,
\* assistant from a user message
HistoryShape ==
    \A u \in DOMAIN conversation_history :
       LET h == conversation_history[u]
       IN  /\ Len(h) % 2 = 0
           /\ Len(h) <= 10
           /\ \A i \in 1..Len(h) :
                 h[i].role = IF i % 2 = 1 THEN "user" ELSE "assistant"

\* a reply for user u leaves u's history as the most recent messages, at
\* most 10, of what it was followed by the query and the reply
HistoryRecent ==
    (last'.op = "generate_response" /\ last'.replied /\ Truthy(last'.user_id))
        => LET all == HistoryOf(conversation_history, last'.user_id)
                      \o <<[role |-> "user", content |-> SanitizeInput(last'.query)],
                           [role |-> "assistant", content |-> last'.result]>>
               n == Min(Len(all), 10)
           IN  conversation_history'[last'.user_id]
                  = [i \in 1..n |-> all[Len(all) - n + i]]

\* C29: after any sequence of generate_response and clear_history calls each
\* user's history has an even length of at most 10 and alternates user,
\* assistant, starting with a user message; it holds the most recent
\* completed exchanges in order.
HistoryInvariant == []HistoryShape /\ [][HistoryRecent]_vars

\* a sixth exchange of a user was stored and the oldest one dropped
OldestExchangeDropped ==
    /\ last.op = "generate_response"
    /\ last.replied
    /\ last.user_id = "u1"
    /\ last.held = 10
    /\ Len(conversation_history["u1"]) = 10
    /\ conversation_history["u1"][1].content # conversation_history["u1"][9].content

\* C30: a generate_response call that gets no reply (the query is empty
\* after sanitization, or the client call raises) leaves
\* conversation_history as it was for every user, and a call that gets a
\* reply changes the history of its user_id only.
HistoryFrame ==
    [][last'.op = "generate_response"
          => IF last'.replied
             THEN \A u \in (DOMAIN conversation_history \cup DOMAIN conversation_history')
                               \ {last'.user_id} :
                     /\ u \in DOMAIN conversation_history
                     /\ u \in DOMAIN conversation_history'
                     /\ conversation_history'[u] = conversation_history[u]
             ELSE conversation_history' = conversation_history]_vars

\* a reply for one user was stored while another user has a history
OtherUserKept ==
    /\ last.op = "generate_response"
    /\ last.replied
    /\ last.user_id = "u2"
    /\ "u1" \in DOMAIN conversation_history
    /\ Len(conversation_history["u1"]) >= 2

====
